---- MODULE Spec2Model ----
(***************************************************************************)
(* Drum Kit Picker: the scoring and ranking core (kits.py) and the         *)
(* /recommend request handler (main.py).                                   *)
(***************************************************************************)
EXTENDS Integers, Sequences, FiniteSets, TLC

VARIABLES
    catalog,    \* the module-level list KITS that pick_top_kits sorts
    kit,        \* score_kit's argument kit
    prefs,      \* the prefs argument of score_kit / pick_top_kits
    k,          \* pick_top_kits' argument k
    score,      \* the value score_kit returned
    ranked,     \* the list pick_top_kits returned
    pc,         \* position of the function call: "start", "scored", "picked"
    environ,    \* the process environment read by os.getenv
    reqs        \* the /recommend requests in flight, one record per request

vars == <<catalog, kit, prefs, k, score, ranked, pc, environ, reqs>>

(***************************************************************************)
(* kits.py: the catalog                                                    *)
(***************************************************************************)
DrumKit(id, name, kit_type, price_min, price_max, space, genres, skill, notes) ==
    [id |-> id, name |-> name, kit_type |-> kit_type, price_min |-> price_min,
     price_max |-> price_max, space |-> space, genres |-> genres,
     skill |-> skill, notes |-> notes]

KITS ==
    << DrumKit("roland-td-17kvx2", "Roland TD-17KVX2", "electronic", 1700, 2300,
               "apartment", <<"rock", "metal", "pop", "funk", "jazz">>, "intermediate",
               "Solid pads, good module, quiet enough for most apartments with a mat."),
       DrumKit("alesis-nitro-max", "Alesis Nitro Max", "electronic", 300, 450,
               "apartment", <<"rock", "pop", "hiphop", "edm">>, "beginner",
               "Budget-friendly starter kit, expect compromises in feel/durability."),
       DrumKit("yamaha-dtx6k2-x", "Yamaha DTX6K2-X", "electronic", 900, 1300,
               "apartment", <<"rock", "pop", "funk", "jazz">>, "intermediate",
               "Strong sounds and training features; pad feel is preference-dependent."),
       DrumKit("yamaha-stage-custom-birch", "Yamaha Stage Custom Birch", "acoustic", 750, 1100,
               "house", <<"rock", "pop", "funk", "jazz", "country">>, "beginner",
               "Reliable entry acoustic kit; cymbals/hardware may be extra depending on bundle."),
       DrumKit("tama-imperialstar", "Tama Imperialstar", "acoustic", 700, 1100,
               "house", <<"rock", "metal", "pop">>, "beginner",
               "Often sold as complete packages; good value, not subtle."),
       DrumKit("gretsch-catalina-club", "Gretsch Catalina Club", "acoustic", 800, 1200,
               "house", <<"jazz", "funk", "pop", "rock">>, "intermediate",
               "Smaller shells, easier in tight spaces, still loud like any acoustic kit.") >>

\* the enumerations the catalog and the form use
KitTypes == {"acoustic", "electronic"}
Spaces == {"apartment", "house", "studio"}
Skills == {"beginner", "intermediate", "advanced"}
\* genres of the form: one every kit lists, one a single kit lists, two in between
Genres == {"rock", "metal", "jazz", "edm"}

\* Python's  x in list
InList(x, list) == \E i \in 1..Len(list) : list[i] = x

(***************************************************************************)
(* kits.py: score_kit, one operator per factor group, in the code's order  *)
(***************************************************************************)
\* a match worth 20
TypeScoreWeakMatch(kt, p) ==
    IF p.kit_type = kt.kit_type THEN 20 ELSE -10

TypeScore(kt, p) ==
    IF p.kit_type = kt.kit_type THEN 30 ELSE -10

\* a budget above the range penalised like one below it
BudgetScoreSymmetric(kt, p) ==
    LET budget == p.budget IN
    IF kt.price_min <= budget /\ budget <= kt.price_max THEN 25
    ELSE IF budget < kt.price_min THEN -20
    ELSE -20

BudgetScore(kt, p) ==
    LET budget == p.budget IN
    IF kt.price_min <= budget /\ budget <= kt.price_max THEN 25
    ELSE IF budget < kt.price_min THEN -20
    ELSE -5

\* if ... / if ... else ... instead of if / elif / else
SpaceScoreFallThrough(kt, p) ==
    (IF p.space = kt.space THEN 20 ELSE 0)
    + (IF p.space = "apartment" /\ kt.kit_type = "acoustic" THEN -40
       ELSE IF p.space = kt.space THEN 0 ELSE 5)

\* the conflict without the test of prefs["space"]
SpaceScoreAnyAcoustic(kt, p) ==
    IF p.space = kt.space THEN 20
    ELSE IF kt.kit_type = "acoustic" THEN -40
    ELSE 5

SpaceScore(kt, p) ==
    IF p.space = kt.space THEN 20
    ELSE IF p.space = "apartment" /\ kt.kit_type = "acoustic" THEN -40
    ELSE 5

SkillScore(kt, p) ==
    IF p.skill = kt.skill THEN 10
    ELSE IF p.skill = "beginner" /\ kt.skill # "advanced" THEN 6
    ELSE 0

GenreScore(kt, p) ==
    LET genre == p.genre IN
    IF InList(genre, kt.genres) THEN 15 ELSE 2

\* the quiet bonus without the test of the kit's type
QuietScoreAnyKit(kt, p) ==
    IF p.quiet_priority THEN 10 ELSE 0

QuietScore(kt, p) ==
    IF p.quiet_priority /\ kt.kit_type = "electronic" THEN 10 ELSE 0

score_kit(kt, p) ==
    LET s0 == 0
        s1 == s0 + TypeScore(kt, p)
        s2 == s1 + BudgetScore(kt, p)
        s3 == s2 + SpaceScore(kt, p)
        s4 == s3 + SkillScore(kt, p)
        s5 == s4 + GenreScore(kt, p)
        s6 == s5 + QuietScore(kt, p)
    IN  s6

(***************************************************************************)
(* kits.py: pick_top_kits.  sorted(..., reverse=True) is a stable sort:    *)
(* the list is reversed, sorted ascending by insertion (equal keys keep    *)
(* their order), and reversed again.                                       *)
(***************************************************************************)
Reverse(list) == [i \in 1..Len(list) |-> list[Len(list) + 1 - i]]

\* x inserted after every element whose key is <= x's key (list is ascending)
InsertByScore(list, x, p) ==
    LET n == Cardinality({i \in 1..Len(list) : score_kit(list[i], p) <= score_kit(x, p)})
    IN  SubSeq(list, 1, n) \o <<x>> \o SubSeq(list, n + 1, Len(list))

RECURSIVE SortByScoreAscending(_, _)
SortByScoreAscending(list, p) ==
    IF list = <<>> THEN <<>>
    ELSE InsertByScore(SortByScoreAscending(SubSeq(list, 1, Len(list) - 1), p),
                       list[Len(list)], p)

\* sorted(list)[::-1] instead of sorted(list, reverse=True): equal scores swap
SortedReversedAfterwards(list, p) == Reverse(SortByScoreAscending(list, p))

SortedByScoreReverse(list, p) == Reverse(SortByScoreAscending(Reverse(list), p))

\* list[:k+1]
SliceOneMore(list, kk) ==
    IF kk + 1 >= 0
    THEN SubSeq(list, 1, IF kk + 1 < Len(list) THEN kk + 1 ELSE Len(list))
    ELSE SubSeq(list, 1, IF Len(list) + kk + 1 > 0 THEN Len(list) + kk + 1 ELSE 0)

\* list[:k]
Slice(list, kk) ==
    IF kk >= 0
    THEN SubSeq(list, 1, IF kk < Len(list) THEN kk ELSE Len(list))
    ELSE SubSeq(list, 1, IF Len(list) + kk > 0 THEN Len(list) + kk ELSE 0)

\* KITS.sort(...) instead of sorted(KITS, ...): the module-level list is reordered
SortedInPlace(list, p) == SortByScoreAscending(list, p)

\* the argument of sorted() after the call: sorted() builds a new list
ListAfterSorted(list, p) == list

\* pick_top_kits(prefs, k), cat being the value of the global KITS
pick_top_kits(cat, p, kk) ==
    LET rankedAll == SortedByScoreReverse(cat, p)
    IN  Slice(rankedAll, kk)

(***************************************************************************)
(* Inputs                                                                  *)
(***************************************************************************)
MaxK == 7

\* budgets below, at the edges of, inside and above the catalog's price ranges
Budgets == {200, 699, 700, 1100, 1101, 2000}

\* values outside the enumerations, as a client that bypasses the form can send
UnknownKitType == "hybrid"
UnknownSpace == "garage"
UnknownSkill == "expert"

Prefs(kit_type, budget, space, skill, genre, quiet_priority) ==
    [kit_type |-> kit_type, budget |-> budget, space |-> space, skill |-> skill,
     genre |-> genre, quiet_priority |-> quiet_priority]

ValidPrefs ==
    {Prefs(t, b, sp, sk, g, q) :
        t \in KitTypes, b \in Budgets, sp \in Spaces, sk \in Skills,
        g \in Genres, q \in BOOLEAN}

AllPrefs ==
    {Prefs(t, b, sp, sk, g, q) :
        t \in KitTypes \cup {UnknownKitType}, b \in Budgets,
        sp \in Spaces \cup {UnknownSpace}, sk \in Skills \cup {UnknownSkill},
        g \in Genres, q \in BOOLEAN}

\* the catalog's kits and kits of every category, placement and skill
Items ==
    {KITS[i] : i \in 1..Len(KITS)} \cup
    {DrumKit("kit", "Kit", t, 700, 1100, sp, g, sk, "") :
        t \in KitTypes, sp \in Spaces, sk \in Skills,
        g \in {<<"rock">>, <<"jazz", "metal">>}}

\* the catalog and every contiguous part of it, the empty catalog included
Catalogs ==
    {SubSeq(KITS, i, j) : i \in 1..Len(KITS), j \in 0..Len(KITS)}

(***************************************************************************)
(* score_kit called on one kit                                             *)
(***************************************************************************)
InitScore ==
    /\ catalog = KITS
    /\ kit \in Items
    /\ prefs \in AllPrefs
    /\ k = 3
    /\ score = 0
    /\ ranked = <<>>
    /\ pc = "start"
    /\ environ = {}
    /\ reqs = <<>>

ScoreKit ==
    /\ pc = "start"
    /\ score' = score_kit(kit, prefs)
    /\ pc' = "scored"
    /\ UNCHANGED <<catalog, kit, prefs, k, ranked, environ, reqs>>

NextScore == ScoreKit

SpecScore == InitScore /\ [][NextScore]_vars

(***************************************************************************)
(* pick_top_kits called on a catalog                                       *)
(***************************************************************************)
InitRank ==
    /\ catalog \in Catalogs
    /\ kit = KITS[1]
    /\ prefs \in ValidPrefs
    /\ k \in 0..MaxK
    /\ score = 0
    /\ ranked = <<>>
    /\ pc = "start"
    /\ environ = {}
    /\ reqs = <<>>

PickTopKits ==
    /\ pc = "start"
    /\ ranked' = pick_top_kits(catalog, prefs, k)
    /\ catalog' = ListAfterSorted(catalog, prefs)
    /\ pc' = "picked"
    /\ UNCHANGED <<kit, prefs, k, score, environ, reqs>>

NextRank == PickTopKits

SpecRank == InitRank /\ [][NextRank]_vars

(***************************************************************************)
(* main.py: the environment and the outbound call                          *)
(***************************************************************************)
NumRequests == 2

Requests == 1..NumRequests

\* os.getenv's answer for a variable that is not set
None == "<None>"

\* os.getenv(name, default)
getenv(env, name, default) ==
    IF \E e \in env : e[1] = name
    THEN (CHOOSE e \in env : e[1] = name)[2]
    ELSE default

\* env_required with  if val is None:  an empty value passes
env_required_none_only(env, name) ==
    LET val == getenv(env, name, None) IN
    IF val = None
    THEN [raised |-> TRUE, type |-> "RuntimeError",
          msg |-> "Missing required environment variable: " \o name]
    ELSE [raised |-> FALSE, val |-> val]

\* env_required(name): the value, or the RuntimeError it raises
env_required(env, name) ==
    LET val == getenv(env, name, None) IN
    IF val = None \/ val = ""
    THEN [raised |-> TRUE, type |-> "RuntimeError",
          msg |-> "Missing required environment variable: " \o name]
    ELSE [raised |-> FALSE, val |-> val]

\* the environments a process can be started in
Environs ==
    { {},
      {<<"DO_MODEL_ACCESS_KEY", "">>},
      {<<"DO_MODEL_ID", "model">>},
      {<<"DO_MODEL_ACCESS_KEY", "key">>, <<"DO_MODEL_ID", "model">>} }

\* what client.post can end with: an exception of httpx, or a response
Outcomes ==
    { [kind |-> "exception", type |-> "ConnectError", msg |-> "All connection attempts failed"],
      [kind |-> "exception", type |-> "ReadTimeout", msg |-> ""],
      [kind |-> "exception", type |-> "CancelledError", msg |-> ""],
      [kind |-> "response", status |-> 500, json |-> TRUE, body |-> [error |-> "internal"]],
      [kind |-> "response", status |-> 200, json |-> FALSE, body |-> [error |-> ""]],
      [kind |-> "response", status |-> 200, json |-> TRUE, body |-> [error |-> "overloaded"]],
      [kind |-> "response", status |-> 200, json |-> TRUE, body |-> [output |-> <<>>]],
      [kind |-> "response", status |-> 200, json |-> TRUE,
       body |-> [output |-> <<[content |-> <<[text |-> "Best pick"]>>]>>]] }

Raise(type, msg) == [ok |-> FALSE, type |-> type, msg |-> msg]

\* do_chat from the end of client.post on: the text, or the exception raised
do_chat(outcome) ==
    IF outcome.kind = "exception" THEN Raise(outcome.type, outcome.msg)
    ELSE IF outcome.status < 200 \/ outcome.status >= 300
         THEN Raise("HTTPStatusError", "status " \o ToString(outcome.status))
    ELSE IF ~outcome.json THEN Raise("JSONDecodeError", "Expecting value")
    ELSE LET data == outcome.body IN
         IF "output" \notin DOMAIN data THEN Raise("KeyError", "'output'")
         ELSE IF Len(data["output"]) = 0 THEN Raise("IndexError", "list index out of range")
         ELSE [ok |-> TRUE, text |-> data["output"][1]["content"][1]["text"]]

\* exceptions that derive from BaseException and not from Exception
NotExceptions == {"CancelledError"}

\* the handler's try/except with  except httpx.HTTPError:  other faults escape
RecommendationHttpErrorsOnly(result) ==
    IF result.ok THEN [raised |-> FALSE, rec |-> result.text]
    ELSE IF result.type \in {"ConnectError", "ReadTimeout", "HTTPStatusError"}
         THEN [raised |-> FALSE,
               rec |-> "AI call failed: " \o result.type \o ": " \o result.msg]
    ELSE [raised |-> TRUE, rec |-> ""]

\* the handler's try/except around do_chat:  except Exception as e
Recommendation(result) ==
    IF result.ok THEN [raised |-> FALSE, rec |-> result.text]
    ELSE IF result.type \in NotExceptions THEN [raised |-> TRUE, rec |-> ""]
    ELSE [raised |-> FALSE,
          rec |-> "AI call failed: " \o result.type \o ": " \o result.msg]

(***************************************************************************)
(* main.py: the /recommend handler                                         *)
(***************************************************************************)
Form(kit_type, budget, space, skill, genre, quiet_priority) ==
    [kit_type |-> kit_type, budget |-> budget, space |-> space, skill |-> skill,
     genre |-> genre, quiet_priority |-> quiet_priority]

\* the form posts the model submits
Forms ==
    { Form("electronic", 2000, "apartment", "intermediate", "rock", "yes"),
      Form("acoustic", 900, "apartment", "beginner", "jazz", "no"),
      Form(UnknownKitType, 900, UnknownSpace, UnknownSkill, "rock", "on") }

\* the prefs dict the handler builds from the form fields
FormPrefs(form) ==
    Prefs(form.kit_type, form.budget, form.space, form.skill, form.genre,
          form.quiet_priority = "yes")

NoOutcome == [kind |-> "none"]

NoPrefs == Prefs("", 0, "", "", "", FALSE)

IdleRequest ==
    [pc |-> "idle", form |-> Form("", 0, "", "", "", ""), prefs |-> NoPrefs,
     top |-> <<>>, key |-> "", model |-> "", posts |-> 0, outcome |-> NoOutcome,
     rec |-> "", raised |-> ""]

Init ==
    /\ catalog = KITS
    /\ kit = KITS[1]
    /\ prefs = NoPrefs
    /\ k = 3
    /\ score = 0
    /\ ranked = <<>>
    /\ pc = "start"
    /\ environ \in Environs
    /\ reqs = [r \in Requests |-> IdleRequest]

Pure == <<kit, prefs, k, score, ranked, pc>>

\* the handler is entered with the validated form fields; prefs is built
Receive(r, form) ==
    /\ reqs[r].pc = "idle"
    /\ reqs' = [reqs EXCEPT ![r] = [@ EXCEPT !.pc = "received", !.form = form,
                                              !.prefs = FormPrefs(form)]]
    /\ UNCHANGED <<catalog, environ, Pure>>

\* top = pick_top_kits(prefs, k=3)
PickTop(r) ==
    /\ reqs[r].pc = "received"
    /\ reqs' = [reqs EXCEPT ![r] = [@ EXCEPT !.pc = "ranked",
                                              !.top = pick_top_kits(catalog, reqs[r].prefs, 3)]]
    /\ catalog' = ListAfterSorted(catalog, reqs[r].prefs)
    /\ UNCHANGED <<environ, Pure>>

\* model_access_key = env_required(...); model_id = os.getenv(..., default)
EnvRequired(r) ==
    /\ reqs[r].pc = "ranked"
    /\ LET key == env_required(environ, "DO_MODEL_ACCESS_KEY") IN
       reqs' = [reqs EXCEPT ![r] =
                  IF key.raised
                  THEN [@ EXCEPT !.pc = "raised", !.raised = key.type]
                  ELSE [@ EXCEPT !.pc = "ready", !.key = key.val,
                                 !.model = getenv(environ, "DO_MODEL_ID",
                                                  "llama3.3-70b-instruct")]]
    /\ UNCHANGED <<catalog, environ, Pure>>

\* do_chat up to  await client.post(...): the request is sent and the handler suspends
Post(r) ==
    /\ reqs[r].pc = "ready"
    /\ reqs' = [reqs EXCEPT ![r] = [@ EXCEPT !.pc = "awaiting", !.posts = @ + 1]]
    /\ UNCHANGED <<catalog, environ, Pure>>

\* client.post ends; the rest of do_chat, the except clause and the page
Reply(r, outcome) ==
    /\ reqs[r].pc = "awaiting"
    /\ LET got == Recommendation(do_chat(outcome)) IN
       reqs' = [reqs EXCEPT ![r] =
                  IF got.raised
                  THEN [@ EXCEPT !.pc = "raised", !.outcome = outcome,
                                 !.raised = do_chat(outcome).type]
                  ELSE [@ EXCEPT !.pc = "done", !.outcome = outcome, !.rec = got.rec]]
    /\ UNCHANGED <<catalog, environ, Pure>>

\* the response is out; the handler's locals are gone
Close(r) ==
    /\ reqs[r].pc \in {"done", "raised"}
    /\ reqs' = [reqs EXCEPT ![r] = IdleRequest]
    /\ UNCHANGED <<catalog, environ, Pure>>

Next ==
    \E r \in Requests :
        \/ \E form \in Forms : Receive(r, form)
        \/ PickTop(r)
        \/ EnvRequired(r)
        \/ Post(r)
        \/ \E outcome \in Outcomes : Reply(r, outcome)
        \/ Close(r)

Spec == Init /\ [][Next]_vars

(***************************************************************************)
(* The scoring table, condition by condition: for each factor group the    *)
(* set of deltas whose condition holds for kit kt and preferences p.       *)
(***************************************************************************)
CategoryFired(kt, p) ==
    {d \in {30, -10} :
        \/ d = 30 /\ p.kit_type = kt.kit_type
        \/ d = -10 /\ p.kit_type # kt.kit_type}

BudgetFired(kt, p) ==
    {d \in {25, -20, -5} :
        \/ d = 25 /\ kt.price_min <= p.budget /\ p.budget <= kt.price_max
        \/ d = -20 /\ p.budget < kt.price_min
        \/ d = -5 /\ p.budget > kt.price_max}

PlacementFired(kt, p) ==
    {d \in {20, -40, 5} :
        \/ d = 20 /\ p.space = kt.space
        \/ d = -40 /\ p.space # kt.space /\ p.space = "apartment" /\ kt.kit_type = "acoustic"
        \/ d = 5 /\ p.space # kt.space /\ ~(p.space = "apartment" /\ kt.kit_type = "acoustic")}

SkillFired(kt, p) ==
    {d \in {10, 6, 0} :
        \/ d = 10 /\ p.skill = kt.skill
        \/ d = 6 /\ p.skill # kt.skill /\ p.skill = "beginner" /\ kt.skill # "advanced"
        \/ d = 0 /\ p.skill # kt.skill /\ ~(p.skill = "beginner" /\ kt.skill # "advanced")}

GenreFired(kt, p) ==
    {d \in {15, 2} :
        \/ d = 15 /\ p.genre \in {kt.genres[i] : i \in 1..Len(kt.genres)}
        \/ d = 2 /\ p.genre \notin {kt.genres[i] : i \in 1..Len(kt.genres)}}

QuietFired(kt, p) ==
    {d \in {10, 0} :
        \/ d = 10 /\ p.quiet_priority /\ kt.kit_type = "electronic"
        \/ d = 0 /\ ~(p.quiet_priority /\ kt.kit_type = "electronic")}

TheOne(S) == CHOOSE d \in S : TRUE

Elements(list) == {list[i] : i \in 1..Len(list)}

PositionIn(list, x) == CHOOSE i \in 1..Len(list) : list[i] = x

Roland == KITS[1]

Tama == KITS[5]

ScenarioPrefs == Prefs("electronic", 2000, "apartment", "intermediate", "rock", TRUE)

\* C1: the list pick_top_kits returns is in descending score order, no item
\* left out scores more than a returned one, and returned items of equal
\* score keep the order they have in the catalog.
C1_RankedDescendingStable ==
    pc = "picked" =>
        /\ \A i \in 1..Len(ranked) : ranked[i] \in Elements(catalog)
        /\ \A i, j \in 1..Len(ranked) :
              i < j => score_kit(ranked[i], prefs) >= score_kit(ranked[j], prefs)
        /\ \A i \in 1..Len(ranked) : \A x \in Elements(catalog) \ Elements(ranked) :
              score_kit(ranked[i], prefs) >= score_kit(x, prefs)
        /\ \A i, j \in 1..Len(ranked) :
              (i < j /\ score_kit(ranked[i], prefs) = score_kit(ranked[j], prefs))
                  => PositionIn(catalog, ranked[i]) < PositionIn(catalog, ranked[j])

\* C1 witness: KITS ranked with two returned kits of equal score and a kit left out
C1_Witness ==
    /\ pc = "picked"
    /\ catalog = KITS
    /\ Len(ranked) < Len(catalog)
    /\ \E i, j \in 1..Len(ranked) :
          i < j /\ score_kit(ranked[i], prefs) = score_kit(ranked[j], prefs)

\* C2: the list returned has exactly min(k, |catalog|) items, each a distinct
\* entry of the catalog: the whole catalog when it has fewer than k entries,
\* nothing when it is empty, and 3 of the 6 kits of KITS when k = 3.
C2_ReturnsMinOfKAndSize ==
    pc = "picked" =>
        /\ Len(ranked) = (IF k < Len(catalog) THEN k ELSE Len(catalog))
        /\ \A i \in 1..Len(ranked) : ranked[i] \in Elements(catalog)
        /\ \A i, j \in 1..Len(ranked) : i # j => ranked[i] # ranked[j]
        /\ Len(catalog) < k => Elements(ranked) = Elements(catalog)
        /\ catalog = <<>> => ranked = <<>>
        /\ (catalog = KITS /\ k = 3) => (Len(ranked) = 3 /\ Len(catalog) = 6)

\* C2 witness: a catalog shorter than k, returned whole
C2_Witness ==
    /\ pc = "picked"
    /\ Len(catalog) = 2
    /\ k = 3
    /\ Len(ranked) = 2

\* C3: the score is the sum of the six groups' deltas, and in every group
\* exactly one condition of the table holds.
C3_SumOfSixTerms ==
    pc = "scored" =>
        /\ Cardinality(CategoryFired(kit, prefs)) = 1
        /\ Cardinality(BudgetFired(kit, prefs)) = 1
        /\ Cardinality(PlacementFired(kit, prefs)) = 1
        /\ Cardinality(SkillFired(kit, prefs)) = 1
        /\ Cardinality(GenreFired(kit, prefs)) = 1
        /\ Cardinality(QuietFired(kit, prefs)) = 1
        /\ score = TheOne(CategoryFired(kit, prefs)) + TheOne(BudgetFired(kit, prefs))
                     + TheOne(PlacementFired(kit, prefs)) + TheOne(SkillFired(kit, prefs))
                     + TheOne(GenreFired(kit, prefs)) + TheOne(QuietFired(kit, prefs))

\* C3 witness: a kit scored with the budget above its price range, the near
\* skill match and a genre it does not list
C3_Witness ==
    /\ pc = "scored"
    /\ prefs.budget > kit.price_max
    /\ prefs.skill = "beginner" /\ kit.skill = "intermediate"
    /\ ~InList(prefs.genre, kit.genres)
    /\ score = TheOne(CategoryFired(kit, prefs)) - 5 + TheOne(PlacementFired(kit, prefs))
                 + 6 + 2 + TheOne(QuietFired(kit, prefs))

\* the kit that differs from kt in its category alone
Twin(kt) ==
    [kt EXCEPT !.kit_type = IF kt.kit_type = "electronic" THEN "acoustic" ELSE "electronic"]

\* C4 as claimed: a kit whose category the preferences ask for scores at
\* least 40 more than the kit that differs from it in category alone.
C4_CategoryGapAtLeast40 ==
    (pc = "scored" /\ prefs.kit_type = kit.kit_type)
        => score - score_kit(Twin(kit), prefs) >= 40

\* C4 amended: the gap is 40, plus 45 (electronic kit) or minus 45 (acoustic
\* kit) when the preferences say apartment and the kits' space is another,
\* plus 10 (electronic kit) or minus 10 (acoustic kit) when quiet_priority is
\* true; so it is at least 40 for an electronic kit and at least -15 always.
C4_CategoryGapAmended ==
    (pc = "scored" /\ prefs.kit_type = kit.kit_type) =>
        LET sign == IF kit.kit_type = "electronic" THEN 1 ELSE -1
            conflict == prefs.space = "apartment" /\ kit.space # "apartment"
            gap == score - score_kit(Twin(kit), prefs)
        IN  /\ gap = 40 + (IF conflict THEN sign * 45 ELSE 0)
                        + (IF prefs.quiet_priority THEN sign * 10 ELSE 0)
            /\ kit.kit_type = "electronic" => gap >= 40
            /\ gap >= -15

\* C4 witness: an acoustic kit asked for, for an apartment, with quiet priority
C4_Witness ==
    /\ pc = "scored"
    /\ prefs.kit_type = "acoustic" /\ kit.kit_type = "acoustic"
    /\ prefs.space = "apartment" /\ kit.space = "house"
    /\ prefs.quiet_priority
    /\ score - score_kit(Twin(kit), prefs) = -15

\* C5: for the scenario's preferences the Roland TD-17KVX2 scores 110, the
\* Tama Imperialstar scores less, and in the ranking of KITS the Roland is
\* first and the Tama comes after it.
C5_ScenarioRanking ==
    (pc = "picked" /\ catalog = KITS /\ prefs = ScenarioPrefs) =>
        /\ score_kit(Roland, prefs) = 110
        /\ score_kit(Tama, prefs) < score_kit(Roland, prefs)
        /\ k >= 1 => ranked[1] = Roland
        /\ \A i \in 1..Len(ranked) : ranked[i] = Tama => i > 1
        /\ k >= Len(KITS) => Tama \in Elements(ranked)

\* C5 witness: the scenario ranked in full, the Roland first and the Tama below
C5_Witness ==
    /\ pc = "picked" /\ catalog = KITS /\ prefs = ScenarioPrefs
    /\ k = Len(KITS)
    /\ ranked[1].name = "Roland TD-17KVX2"
    /\ \E i \in 2..Len(ranked) : ranked[i].name = "Tama Imperialstar"

\* the faults of the outbound call: network failure, timeout, a response that
\* is not 2xx, a response body without the expected fields
IsFault(outcome) ==
    \/ outcome.kind = "exception" /\ outcome.type \in {"ConnectError", "ReadTimeout"}
    \/ outcome.kind = "response" /\ ~(outcome.status \in 200..299)
    \/ outcome.kind = "response" /\ outcome.status \in 200..299
         /\ (~outcome.json \/ "output" \notin DOMAIN outcome.body
             \/ outcome.body["output"] = <<>>)

\* the shortlist of a request run alone against the catalog as shipped
IsolatedShortlist(form) == pick_top_kits(KITS, FormPrefs(form), 3)

\* C6: a request whose outbound call faulted ends with the page, its text
\* the message "AI call failed: <type>: <message>", after exactly one POST and
\* with the shortlist it computed before the call.
C6_FaultBecomesMessage ==
    \A r \in Requests :
        (reqs[r].pc \in {"done", "raised"} /\ reqs[r].outcome.kind # "none"
            /\ IsFault(reqs[r].outcome)) =>
            /\ reqs[r].pc = "done"
            /\ reqs[r].raised = ""
            /\ \E type \in {"ConnectError", "ReadTimeout", "HTTPStatusError",
                            "JSONDecodeError", "KeyError", "IndexError"} :
                  reqs[r].rec = "AI call failed: " \o type \o ": "
                                   \o do_chat(reqs[r].outcome).msg
            /\ reqs[r].posts = 1
            /\ reqs[r].top = IsolatedShortlist(reqs[r].form)

\* C6 witness: a 200 response without "output" became the KeyError message
C6_Witness ==
    \E r \in Requests :
        /\ reqs[r].pc = "done"
        /\ reqs[r].outcome.kind = "response" /\ reqs[r].outcome.status = 200
        /\ reqs[r].rec = "AI call failed: KeyError: 'output'"
        /\ reqs[r].posts = 1
        /\ Len(reqs[r].top) = 3

\* C7: whatever the interleaving of the requests, the catalog stays KITS, each
\* request keeps the preferences of its own form, and its shortlist is the one
\* pick_top_kits gives for those preferences alone.
C7_RequestsIsolated ==
    /\ catalog = KITS
    /\ \A r \in Requests :
          /\ reqs[r].pc # "idle" => reqs[r].prefs = FormPrefs(reqs[r].form)
          /\ reqs[r].pc \notin {"idle", "received"}
                => reqs[r].top = IsolatedShortlist(reqs[r].form)

\* C7 witness: two requests suspended at their outbound calls with different
\* preferences and different shortlists
C7_Witness ==
    \E r1, r2 \in Requests :
        /\ r1 # r2
        /\ reqs[r1].pc = "awaiting" /\ reqs[r2].pc = "awaiting"
        /\ reqs[r1].prefs # reqs[r2].prefs
        /\ reqs[r1].top # reqs[r2].top

\* C8: with kit_type, space or skill outside its enumeration score_kit still
\* returns an integer: -10 for the unknown category, +5 for the unknown
\* placement, 0 for the unknown skill, the other groups as for valid input.
C8_UnknownValuesMismatch ==
    (pc = "scored" /\ (prefs.kit_type \notin KitTypes \/ prefs.space \notin Spaces
                       \/ prefs.skill \notin Skills)) =>
        /\ score \in Int
        /\ score = (IF prefs.kit_type \notin KitTypes THEN -10
                    ELSE TheOne(CategoryFired(kit, prefs)))
                 + TheOne(BudgetFired(kit, prefs))
                 + (IF prefs.space \notin Spaces THEN 5
                    ELSE TheOne(PlacementFired(kit, prefs)))
                 + (IF prefs.skill \notin Skills THEN 0
                    ELSE TheOne(SkillFired(kit, prefs)))
                 + TheOne(GenreFired(kit, prefs))
                 + TheOne(QuietFired(kit, prefs))

\* C8 witness: an acoustic kit scored for preferences whose three enumerated
\* fields are all unknown
C8_Witness ==
    /\ pc = "scored"
    /\ kit.kit_type = "acoustic"
    /\ prefs.kit_type = UnknownKitType /\ prefs.space = UnknownSpace
    /\ prefs.skill = UnknownSkill
    /\ score = -10 + TheOne(BudgetFired(kit, prefs)) + 5 + 0
                 + TheOne(GenreFired(kit, prefs))

KeyUnsetOrEmpty ==
    \A e \in environ : e[1] = "DO_MODEL_ACCESS_KEY" => e[2] = ""

\* C9: with DO_MODEL_ACCESS_KEY unset or empty no request issues a POST or
\* returns the page; once its shortlist is computed the request ends with
\* the RuntimeError of env_required.
C9_MissingKeyPropagates ==
    KeyUnsetOrEmpty =>
        \A r \in Requests :
            /\ reqs[r].posts = 0
            /\ reqs[r].pc \in {"idle", "received", "ranked", "raised"}
            /\ reqs[r].rec = ""
            /\ reqs[r].pc = "raised" =>
                  /\ reqs[r].raised = "RuntimeError"
                  /\ reqs[r].top = IsolatedShortlist(reqs[r].form)

\* C9 witness: the variable is set to the empty string and a request has
\* ended with the RuntimeError, its shortlist computed
C9_Witness ==
    /\ <<"DO_MODEL_ACCESS_KEY", "">> \in environ
    /\ \E r \in Requests :
          /\ reqs[r].pc = "raised"
          /\ reqs[r].raised = "RuntimeError"
          /\ Len(reqs[r].top) = 3
          /\ reqs[r].posts = 0

\* C10: the score lies in -68 .. 110; it is 110 only for an electronic kit
\* that matches on every factor with quiet_priority true, -68 only for an
\* acoustic kit with category mismatch, budget below price_min, the apartment
\* conflict, no skill credit and genre mismatch; and a kit whose space is the
\* preferred one gets the +20, never the -40.
C10_ScoreRange ==
    pc = "scored" =>
        /\ score \in -68..110
        /\ score = 110 =>
              /\ kit.kit_type = "electronic" /\ prefs.kit_type = kit.kit_type
              /\ kit.price_min <= prefs.budget /\ prefs.budget <= kit.price_max
              /\ prefs.space = kit.space /\ prefs.skill = kit.skill
              /\ prefs.genre \in Elements(kit.genres) /\ prefs.quiet_priority
        /\ score = -68 =>
              /\ kit.kit_type = "acoustic" /\ prefs.kit_type # kit.kit_type
              /\ prefs.budget < kit.price_min
              /\ prefs.space = "apartment" /\ kit.space # "apartment"
              /\ prefs.skill # kit.skill
              /\ ~(prefs.skill = "beginner" /\ kit.skill # "advanced")
              /\ prefs.genre \notin Elements(kit.genres)
        /\ prefs.space = kit.space =>
              score - (TheOne(CategoryFired(kit, prefs)) + TheOne(BudgetFired(kit, prefs))
                       + TheOne(SkillFired(kit, prefs)) + TheOne(GenreFired(kit, prefs))
                       + TheOne(QuietFired(kit, prefs))) = 20

\* C10 witness: a kit scored at -68, the score 110 being the result of
\* score_kit for another kit and preferences of the inputs
C10_Witness ==
    /\ pc = "scored"
    /\ score = -68
    /\ \E kt \in Items : \E p \in AllPrefs : score_kit(kt, p) = 110

====
